---- MODULE Spec2Model ----
(***************************************************************************)
(* Session bridge of EComm_Gemini_Live.                                    *)
(*                                                                         *)
(* GeminiLiveService (src/server/gemini_live_service.py): the registry     *)
(* active_sessions, one background task per session that owns the remote   *)
(* connection (_session_background_task), the coroutines the transport     *)
(* submits to the event loop (create_session, process_user_message,        *)
(* process_user_message_socketio, end_session).                            *)
(*                                                                         *)
(* Every action is one uninterrupted run of a coroutine between two        *)
(* suspension points of the asyncio loop: the loop runs one such step at a *)
(* time, so the steps of different coroutines interleave but never overlap.*)
(***************************************************************************)
EXTENDS Naturals, Sequences, FiniteSets

(* ------------------------------ bounds -------------------------------- *)

\* messages submitted to one session
MaxMsgs == 2
\* text fragments of one receive loop before the one that ends the turn
MaxText == 1
\* items an external search returns
MaxItems == 1
\* inputs of the Live2 sessions together: audio chunks and video frames of
\* the clients, tool-call frames of the remote
MaxChunks == 3
\* the maxsize of out_queue of a Live2 session: 10 in create_session, scaled
\* down so that a full queue with a put waiting lies within MaxChunks
MaxOutQueue == 1
\* times a caller of create_session supplies an id that is registered
MaxReuse == 1
\* whole chunks in the audio of one answer
MaxAudio == 2
\* function calls a tool-call frame carries after its first
MaxMore == 1

(* ---------------------------- finite sets ------------------------------ *)

SessionIds == {"s1", "s2"}
\* the sessions the transport drives under Spec
LiveIds == {"s1"}
\* the uuid4 values GeminiLive2Service.create_session can draw
Live2Ids == {"a1", "a2"}
\* an id no create_session has returned
UnknownId == "a0"
Live2Names == Live2Ids \cup {UnknownId}
\* request.sid of the Socket.IO clients
Clients == {"c1", "c2"}
\* transport threads that call end_session
Callers == {"e1", "e2"}
\* the value end_session puts on the queue to terminate the task
Terminate == [id |-> 0, frame |-> "none", by |-> "end_session"]
\* data URL of a frame: absent, decodable, not decodable
FrameKinds == {"none", "good", "bad"}
\* names the remote may ask to call
ToolNames == {"search_products", "other"}
\* text fragments the remote produces
Fragments == {"t"}
\* function_calls[0].args of a tool call: a mapping, or None
ArgKinds == {"dict", "missing"}
\* the frames of the remote stream the receive loop tells apart; a tool-call
\* frame carries function_calls[0] (tool, args) and "more" further calls
Frames ==
    [text : Fragments, tool : {"none"}, args : {"dict"}, eot : BOOLEAN, more : {0}]
    \cup [text : {""}, tool : {"none"}, args : {"dict"}, eot : {TRUE}, more : {0}]
    \cup [text : {""}, tool : ToolNames, args : ArgKinds, eot : {FALSE}, more : {0}]
\* text frames whose fragment is white space
BlankFrames ==
    [text : {" "}, tool : {"none"}, args : {"dict"}, eot : BOOLEAN, more : {0}]
\* tool-call frames with several function calls
MultiCallFrames ==
    [text : {""}, tool : ToolNames, args : ArgKinds, eot : {FALSE}, more : 1..MaxMore]

VARIABLES
    active_sessions,    \* keys of self.active_sessions
    session_responses,  \* keys of self.session_responses
    connected,          \* session_data["connected"]
    taskField,          \* session_data["task"]: "None" or "task"
    tpc,                \* where the background task of a session stands
    message_queue,      \* session_data["message_queue"]
    client_sid,         \* session_data["client_sid"] / ["socketio"]: "absent" or a client
    rc_sent,            \* session_data["_response_complete_sent"]
    fr_sent,            \* session_data["_function_result_sent"]
    tts,                \* what stream_tts_audio did at the end of the last turn,
                        \* and the length of the audio it was given
    cur,                \* the message the task dequeued last
    acc,                \* accumulated_text of the receive loop
    toolcur,            \* function_name of the tool call being executed
    toolres,            \* function_response of that call, until it is sent back
    backlog,            \* remote side: messages whose answer is not finished
    out,                \* events emitted to clients since the last dequeue
    nextMsg,            \* number of messages accepted so far, per session
    deqLog,             \* ids of the messages the task dequeued, in order
    sendLog,            \* ids of the messages sent to the remote, in order
    completed,          \* ids of the turns for which response_complete was emitted
    handshake,          \* outcome of client.aio.live.connect: "none", "ok", "failed"
    created,            \* what create_session returned: "none", or the connected flag then
    submitRes,          \* outcome of the last message submission per session
    epc,                \* where each end_session call stands
    esid,               \* the session id an end_session call names
    eret,               \* what an end_session call returned
    efound,             \* whether the id was in active_sessions when end_session was called
    einflight,          \* id of the turn in flight for a client when end_session was called
    orphans,            \* running tasks of an id whose entry was replaced
    sessions,           \* Live2: keys of self.sessions
    active,             \* Live2: session["active"]
    audio,              \* Live2: len(session["audio"])
    out_queue,          \* Live2: items in session["out_queue"], oldest first
    l2put,              \* Live2: the out_queue.put coroutines scheduled on the loop
                        \* and not finished: those ready to run and those waiting
                        \* for a free slot, each in the order of the loop
    l2sent,             \* Live2: items handed to gemini_session.send, in order
    l2writes,           \* Live2: the writes to self.sessions and to session state
                        \* made so far: the method, what it wrote, and the thread
    stream_task,        \* Live2: where process_streaming of a session stands
    video,              \* Live2: video frames sent, failed in the sending, skipped
    l2tool,             \* Live2: tool-call frames received, function results shown
                        \* to the client, tool responses sent to the remote
    issued,             \* Live2: ids create_session has returned
    ended,              \* Live2: ids end_session has been called with
    creates             \* Live2: number of create_session calls

vars == <<active_sessions, session_responses, connected, taskField, tpc,
          message_queue, client_sid, rc_sent, tts, fr_sent, cur, acc, toolcur,
          backlog, out, nextMsg, deqLog, sendLog, completed, created,
          submitRes, epc, esid, eret, einflight, toolres, efound, handshake,
          orphans, sessions, active, audio, out_queue, l2put, l2sent, l2writes,
          stream_task, video,
          l2tool, issued, ended, creates>>

live2Vars == <<sessions, active, audio, out_queue, l2put, l2sent, l2writes, stream_task,
               video, l2tool,
               issued, ended, creates>>
liveVars == <<active_sessions, session_responses, connected, taskField, tpc,
              message_queue, client_sid, rc_sent, tts, fr_sent, cur, acc, toolcur,
              backlog, out, nextMsg, deqLog, sendLog, completed, created,
              submitRes, epc, esid, eret, einflight, toolres, efound, handshake,
              orphans>>
\* what no step of a registered session's task or callers changes
aside == <<live2Vars, orphans>>

taskVars == <<connected, taskField, tpc, rc_sent, tts, fr_sent, cur, acc, toolcur,
              toolres, backlog, out, deqLog, sendLog, completed, handshake>>
endVars == <<epc, esid, eret, efound, einflight>>

(* ------------------------------ helpers -------------------------------- *)

\* the task has been created and has neither returned nor been cancelled
TaskRunning(s) ==
    tpc[s] \in {"start", "connecting", "get", "send", "recv", "exec",
                "sendtool", "synth", "closing"}

\* a turn is in flight: a message was dequeued and its turn is not over
TurnInFlight(s) == tpc[s] \in {"send", "recv", "exec", "sendtool", "synth"}

\* no task is inside the synchronous synthesize_speech call: the thread of
\* the loop is free to run a step of a coroutine
LoopFree == \A s \in SessionIds : tpc[s] # "synth"

\* asyncio.Queue.put / put_nowait on an unbounded queue
QueuePut(q, m) == Append(q, m)
\* a queue that hands out its newest item
QueueBack(q) == q[Len(q)]
\* asyncio.Queue.get: the item handed out, and what stays
QueueFront(q) == Head(q)
QueueRest(q) == Tail(q)

\* str.strip() on the accumulated fragments
RECURSIVE LStrip(_)
LStrip(a) == IF a # <<>> /\ Head(a) = " " THEN LStrip(Tail(a)) ELSE a
RECURSIVE RStrip(_)
RStrip(a) ==
    IF a # <<>> /\ a[Len(a)] = " " THEN RStrip(SubSeq(a, 1, Len(a) - 1)) ELSE a
Strip(a) == RStrip(LStrip(a))

Ev(type, to, kind, frags, n, of) ==
    [type |-> type, to |-> to, kind |-> kind, frags |-> frags, n |-> n, of |-> of,
     items |-> <<>>]

\* the "results" of the JSON of /api/search: n products in rank order, each
\* with the id the search gave it
SearchResults(n) == [i \in 1..n |-> [id |-> i]]

\* a product that has lost its id
NormalizeProductNoId(product) == [id |-> 0, aisle |-> "Unknown"]
\* utils.normalize_product: the id is kept, the absent fields get defaults
NormalizeProduct(product) == [id |-> product.id, aisle |-> "Unknown"]

\* the function_result event with the enriched results
ToolResultEv(to, name, results, of) ==
    [Ev("ToolResult", to, name, <<>>, Len(results), of) EXCEPT
        !.items = [i \in 1..Len(results) |-> NormalizeProduct(results[i])]]

\* "socketio" in session_data and "client_sid" in session_data
SinkBound(s) == client_sid[s] # "absent"

\* socketio.emit(...) guarded by the presence of the sink
EmitIfBound(s, log, e) == IF SinkBound(s) THEN Append(log, e) ELSE log

\* a function_response: {"results": [n items]} or {"error": ...}
\* stream_tts_audio has not been called for the turn
NoTts == [did |-> "none", bytes |-> 0]

\* no put on out_queue is under way
NoPuts == [ready |-> <<>>, waiting |-> <<>>]

NoResponse == [kind |-> "none", n |-> 0, results |-> <<>>, searched |-> FALSE]

Count(log, type) == Cardinality({i \in DOMAIN log : log[i].type = type})

(* ------------------------------- Init ---------------------------------- *)

Init ==
    /\ active_sessions = {}
    /\ session_responses = {}
    /\ connected = [s \in SessionIds |-> FALSE]
    /\ taskField = [s \in SessionIds |-> "None"]
    /\ tpc = [s \in SessionIds |-> "none"]
    /\ message_queue = [s \in SessionIds |-> <<>>]
    /\ client_sid = [s \in SessionIds |-> "absent"]
    /\ rc_sent = [s \in SessionIds |-> FALSE]
    /\ fr_sent = [s \in SessionIds |-> FALSE]
    /\ tts = [s \in SessionIds |-> NoTts]
    /\ cur = [s \in SessionIds |-> Terminate]
    /\ acc = [s \in SessionIds |-> <<>>]
    /\ toolcur = [s \in SessionIds |-> "none"]
    /\ toolres = [s \in SessionIds |-> NoResponse]
    /\ backlog = [s \in SessionIds |-> <<>>]
    /\ out = [s \in SessionIds |-> <<>>]
    /\ nextMsg = [s \in SessionIds |-> 0]
    /\ deqLog = [s \in SessionIds |-> <<>>]
    /\ sendLog = [s \in SessionIds |-> <<>>]
    /\ completed = [s \in SessionIds |-> {}]
    /\ handshake = [s \in SessionIds |-> "none"]
    /\ created = [s \in SessionIds |-> "none"]
    /\ submitRes = [s \in SessionIds |-> "none"]
    /\ epc = [c \in Callers |-> "idle"]
    /\ esid = [c \in Callers |-> "s1"]
    /\ eret = [c \in Callers |-> "none"]
    /\ efound = [c \in Callers |-> FALSE]
    /\ einflight = [c \in Callers |-> 0]
    /\ orphans = [s \in SessionIds |-> 0]
    /\ sessions = {}
    /\ active = [a \in Live2Names |-> FALSE]
    /\ audio = [a \in Live2Names |-> 0]
    /\ out_queue = [a \in Live2Names |-> <<>>]
    /\ l2put = [a \in Live2Names |-> NoPuts]
    /\ l2sent = [a \in Live2Names |-> <<>>]
    /\ l2writes = {}
    /\ stream_task = [a \in Live2Names |-> "None"]
    /\ video = [a \in Live2Names |-> [sent |-> 0, failed |-> 0, skipped |-> 0]]
    /\ l2tool = [a \in Live2Names |-> [frames |-> 0, shown |-> 0, answers |-> 0]]
    /\ issued = {}
    /\ ended = {}
    /\ creates = 0

(* --------------------- coroutines of the transport --------------------- *)

\* create_session(): the id is a fresh uuid4, the entry is stored with
\* connected False, the task is created and the id returned; nothing is awaited
CreateSession(s) ==
    /\ LoopFree
    /\ created[s] = "none"
    /\ active_sessions' = active_sessions \cup {s}
    /\ session_responses' = session_responses \cup {s}
    /\ connected' = [connected EXCEPT ![s] = FALSE]
    /\ taskField' = [taskField EXCEPT ![s] = "task"]
    /\ tpc' = [tpc EXCEPT ![s] = "start"]
    /\ created' = [created EXCEPT ![s] =
                     IF connected'[s] THEN "connected" ELSE "not_connected"]
    /\ UNCHANGED <<message_queue, client_sid, rc_sent, tts, fr_sent, cur, acc,
                   toolcur, toolres, backlog, out, nextMsg, deqLog, sendLog, completed,
                   submitRes, endVars, handshake, aside>>

\* create_session(session_id=s) with an id that is registered: the entry is
\* replaced by a new one with new queues and a new task, and the task of the
\* old entry keeps running on the old one. Taken when that task waits on its
\* empty queue with no end_session in progress: nothing then holds the old
\* queue, and the task waits, connected, for good.
CreateSessionWithId(s) ==
    /\ LoopFree
    /\ s \in active_sessions
    /\ orphans[s] < MaxReuse
    /\ tpc[s] = "get" /\ message_queue[s] = <<>>
    /\ \A c \in Callers : esid[c] = s => epc[c] \notin {"waiting", "reaping"}
    /\ orphans' = [orphans EXCEPT ![s] = @ + 1]
    /\ session_responses' = session_responses \cup {s}
    /\ connected' = [connected EXCEPT ![s] = FALSE]
    /\ taskField' = [taskField EXCEPT ![s] = "task"]
    /\ tpc' = [tpc EXCEPT ![s] = "start"]
    /\ client_sid' = [client_sid EXCEPT ![s] = "absent"]
    /\ rc_sent' = [rc_sent EXCEPT ![s] = FALSE]
    /\ fr_sent' = [fr_sent EXCEPT ![s] = FALSE]
    /\ tts' = [tts EXCEPT ![s] = NoTts]
    /\ handshake' = [handshake EXCEPT ![s] = "none"]
    /\ created' = [created EXCEPT ![s] = "not_connected"]
    /\ UNCHANGED <<active_sessions, message_queue, cur, acc, toolcur, toolres,
                   backlog, out, nextMsg, deqLog, sendLog, completed, submitRes,
                   endVars, live2Vars>>

\* the checks of process_user_message_socketio before it enqueues
SocketioAdmits(s) == connected[s] /\ taskField[s] # "None"

\* process_user_message_socketio(session_id, (message, frame), client_sid, socketio)
ProcessUserMessageSocketio(s, c, f) ==
    /\ LoopFree
    /\ nextMsg[s] < MaxMsgs
    /\ IF s \notin active_sessions
       THEN /\ submitRes' = [submitRes EXCEPT ![s] = "Session not found"]
            /\ UNCHANGED <<client_sid, message_queue, nextMsg>>
       ELSE IF ~SocketioAdmits(s)
       THEN /\ submitRes' = [submitRes EXCEPT ![s] = "Session not connected"]
            /\ UNCHANGED <<client_sid, message_queue, nextMsg>>
       ELSE /\ client_sid' = [client_sid EXCEPT ![s] = c]
            /\ nextMsg' = [nextMsg EXCEPT ![s] = @ + 1]
            /\ message_queue' = [message_queue EXCEPT ![s] =
                 QueuePut(@, [id |-> nextMsg'[s], frame |-> f, by |-> c])]
            /\ submitRes' = [submitRes EXCEPT ![s] = "processing"]
    /\ UNCHANGED <<active_sessions, session_responses, taskVars, created, endVars,
                   aside>>

\* process_user_message(session_id, message): the HTTP route, no sink
ProcessUserMessage(s) ==
    /\ LoopFree
    /\ nextMsg[s] < MaxMsgs
    /\ IF s \notin active_sessions
       THEN /\ submitRes' = [submitRes EXCEPT ![s] = "Session not found"]
            /\ UNCHANGED <<message_queue, nextMsg>>
       ELSE /\ nextMsg' = [nextMsg EXCEPT ![s] = @ + 1]
            /\ message_queue' = [message_queue EXCEPT ![s] =
                 QueuePut(@, [id |-> nextMsg'[s], frame |-> "none", by |-> "http"])]
            /\ submitRes' = [submitRes EXCEPT ![s] = "processing"]
    /\ UNCHANGED <<active_sessions, session_responses, client_sid, taskVars,
                   created, endVars, aside>>

\* handle_video_frame(session_id, frame_data_url), called by the
\* send_video_frame handler: it returns None and emits nothing on every path;
\* a decodable frame of a registered session is put on the queue as a message
HandleVideoFrame(s, f) ==
    /\ LoopFree
    /\ nextMsg[s] < MaxMsgs
    /\ f # "none"
    /\ submitRes' = [submitRes EXCEPT ![s] = "None"]
    /\ IF s \in active_sessions /\ f = "good"
       THEN /\ nextMsg' = [nextMsg EXCEPT ![s] = @ + 1]
            /\ message_queue' = [message_queue EXCEPT ![s] =
                 QueuePut(@, [id |-> nextMsg'[s], frame |-> "none", by |-> "video"])]
       ELSE UNCHANGED <<message_queue, nextMsg>>
    /\ UNCHANGED <<active_sessions, session_responses, client_sid, taskVars,
                   created, endVars, aside>>

\* what handle_end_session emits once the future of end_session is done:
\* session_ended when it returned (whatever it returned), error when it raised
HandleEndSessionEmit(outcome) ==
    IF outcome = "returned" THEN "session_ended" ELSE "error"

(* ------------------ _session_background_task (one per session) --------- *)

\* the task is inside "async with client.aio.live.connect(...)"
TaskConnected(s) ==
    tpc[s] \in {"get", "send", "recv", "exec", "sendtool", "synth", "closing"}
\* the running tasks and the open connections of a session id
RunningTasks(s) == (IF TaskRunning(s) THEN 1 ELSE 0) + orphans[s]
OpenConnections(s) == (IF TaskConnected(s) THEN 1 ELSE 0) + orphans[s]

\* data['results'][:5]: the products one tool result may carry
MaxSurfaced == 5
\* chunk_size of stream_tts_audio
ChunkSize == 4096
\* lengths of the audio synthesize_speech returns
AudioLens == {ChunkSize + 1}
\* the lengths around every number of whole chunks up to MaxAudio: none, one
\* byte more, one byte less than the next
AudioLensAll == {k * ChunkSize + d : k \in 0..MaxAudio, d \in {0, 1, ChunkSize - 1}}

Min(a, b) == IF a < b THEN a ELSE b

\* a chunking that drops what is left after the last whole chunk
RECURSIVE ChunkLensWholeOnly(_, _)
ChunkLensWholeOnly(i, n) ==
    IF i + ChunkSize > n THEN <<>>
    ELSE <<ChunkSize>> \o ChunkLensWholeOnly(i + ChunkSize, n)

\* for i in range(0, len(audio_bytes), chunk_size): the lengths of the chunks
RECURSIVE ChunkLens(_, _)
ChunkLens(i, n) ==
    IF i >= n THEN <<>>
    ELSE <<Min(ChunkSize, n - i)>> \o ChunkLens(i + ChunkSize, n)

\* the values of i in that loop: where each chunk starts in audio_bytes
RECURSIVE ChunkStarts(_, _)
ChunkStarts(i, n) ==
    IF i >= n THEN <<>> ELSE <<i>> \o ChunkStarts(i + ChunkSize, n)

\* receive_audio_chunk with audio_bytes[from : from + len], base64-encoded
AudioChunkEv(to, from, len) ==
    [Ev("AudioChunk", to, "audio", <<>>, len, 0) EXCEPT !.items = <<from>>]

\* stream_tts_audio(session_id, text, socketio, client_sid); ok = FALSE when
\* there is no tts_client or synthesize_speech raises
StreamTtsAudio(text, to, ok, n) ==
    IF ~ok \/ text = <<>> THEN <<>>
    ELSE [i \in 1..Len(ChunkLens(0, n)) |->
             AudioChunkEv(to, ChunkStarts(0, n)[i], ChunkLens(0, n)[i])]
         \o <<Ev("AudioStreamEnd", to, "audio", <<>>, 0, 0)>>

taskFrame == <<active_sessions, client_sid, nextMsg, created, submitRes, endVars,
               aside>>
\* every task step but the handshake leaves its outcome alone
afterConnect == <<handshake, taskFrame>>

\* the outer "except Exception" of the task: connected False, return
Crash(s) ==
    /\ connected' = [connected EXCEPT ![s] = FALSE]
    /\ tpc' = [tpc EXCEPT ![s] = "crashed"]

\* first run of the task: session_data is read, the live config is built and
\* client.aio.live.connect is awaited
TaskStart(s) ==
    /\ tpc[s] = "start"
    /\ LoopFree
    /\ tpc' = [tpc EXCEPT ![s] = "connecting"]
    /\ UNCHANGED <<connected, taskField, rc_sent, tts, fr_sent, cur, acc, toolcur,
                   toolres, backlog, out, deqLog, sendLog, completed,
                   session_responses, message_queue, afterConnect>>

\* the handshake completes: connected True, the task waits on the queue
ConnectOk(s) ==
    /\ tpc[s] = "connecting"
    /\ LoopFree
    /\ handshake' = [handshake EXCEPT ![s] = "ok"]
    /\ connected' = [connected EXCEPT ![s] = TRUE]
    /\ tpc' = [tpc EXCEPT ![s] = "get"]
    /\ UNCHANGED <<taskField, rc_sent, tts, fr_sent, cur, acc, toolcur, toolres,
                   backlog, out, deqLog, sendLog, completed,
                   session_responses, message_queue, taskFrame>>

\* the handshake raises
ConnectFail(s) ==
    /\ tpc[s] = "connecting"
    /\ LoopFree
    /\ handshake' = [handshake EXCEPT ![s] = "failed"]
    /\ Crash(s)
    /\ UNCHANGED <<taskField, rc_sent, tts, fr_sent, cur, acc, toolcur, toolres,
                   backlog, out, deqLog, sendLog, completed,
                   session_responses, message_queue, taskFrame>>

\* a handler of the frame error that tells the client nothing
FrameErrorSilent(s, log, id) == log

\* the "except" of the multimodal branch: response_complete with the error
\* text if a sink is bound, then "continue"
FrameErrorLog(s, log, id) ==
    IF SinkBound(s)
    THEN Append(log, Ev("Complete", client_sid[s], "frame_error", <<>>, 0, id))
    ELSE log

\* message = await message_queue.get(), up to the first await that follows
Dequeue(s) ==
    /\ tpc[s] = "get"
    /\ LoopFree
    /\ message_queue[s] # <<>>
    /\ message_queue' = [message_queue EXCEPT ![s] = QueueRest(@)]
    /\ LET m == QueueFront(message_queue[s]) IN
       IF m = Terminate
       THEN /\ tpc' = [tpc EXCEPT ![s] = "closing"]
            /\ UNCHANGED <<session_responses, cur, out, deqLog, completed, tts>>
       ELSE /\ session_responses' = session_responses \cup {s}
            /\ tts' = [tts EXCEPT ![s] = NoTts]
            /\ cur' = [cur EXCEPT ![s] = m]
            /\ deqLog' = [deqLog EXCEPT ![s] = Append(@, m.id)]
            /\ IF m.frame = "bad"
               THEN /\ out' = [out EXCEPT ![s] = FrameErrorLog(s, <<>>, m.id)]
                    /\ completed' = [completed EXCEPT ![s] =
                         IF SinkBound(s) THEN @ \cup {m.id} ELSE @]
                    /\ tpc' = [tpc EXCEPT ![s] = "get"]
               ELSE /\ out' = [out EXCEPT ![s] = <<>>]
                    /\ tpc' = [tpc EXCEPT ![s] = "send"]
                    /\ UNCHANGED completed
    /\ UNCHANGED <<connected, taskField, rc_sent, fr_sent, acc, toolcur, toolres,
                   backlog, sendLog, afterConnect>>

\* await session.send(input=..., end_of_turn=True) returns
SendOk(s) ==
    /\ tpc[s] = "send"
    /\ LoopFree
    /\ backlog' = [backlog EXCEPT ![s] = Append(@, cur[s].id)]
    /\ sendLog' = [sendLog EXCEPT ![s] = Append(@, cur[s].id)]
    /\ acc' = [acc EXCEPT ![s] = <<>>]
    /\ tpc' = [tpc EXCEPT ![s] = "recv"]
    /\ UNCHANGED <<connected, taskField, rc_sent, tts, fr_sent, cur, toolcur, toolres,
                   out, deqLog, completed, session_responses, message_queue,
                   afterConnect>>

\* await session.send raises: inside the multimodal "try" it is taken for a
\* frame error, otherwise it reaches the outer handler
SendFail(s) ==
    /\ tpc[s] = "send"
    /\ LoopFree
    /\ IF cur[s].frame # "none"
       THEN /\ out' = [out EXCEPT ![s] = FrameErrorLog(s, @, cur[s].id)]
            /\ completed' = [completed EXCEPT ![s] =
                 IF SinkBound(s) THEN @ \cup {cur[s].id} ELSE @]
            /\ tpc' = [tpc EXCEPT ![s] = "get"]
            /\ UNCHANGED connected
       ELSE /\ Crash(s)
            /\ UNCHANGED <<out, completed>>
    /\ UNCHANGED <<taskField, rc_sent, tts, fr_sent, cur, acc, toolcur, toolres,
                   backlog, deqLog, sendLog, session_responses, message_queue,
                   afterConnect>>

\* line 666 of stream_tts_audio: nothing is synthesized for an empty text or
\* without a tts_client; otherwise synthesize_speech is called
TtsGate(text, client) ==
    IF text = <<>> THEN "skipped" ELSE IF client THEN "running" ELSE "failed"

\* the code after the receive loop: "Always emit response_complete at the
\* end" unless the flag is set, then stream_tts_audio up to its call of
\* synthesize_speech, a synchronous call the task makes on the thread of the
\* loop; without that call the flag is reset and the task is back at its queue
PostLoop(s, log, text, flag, client) ==
    LET emit == SinkBound(s) /\ ~flag
        gate == IF emit THEN TtsGate(text, client) ELSE "none" IN
    /\ out' = [out EXCEPT ![s] =
         IF emit
         THEN Append(log, Ev("Complete", client_sid[s], "acc", text, 0, cur[s].id))
         ELSE log]
    /\ completed' = [completed EXCEPT ![s] = IF emit THEN @ \cup {cur[s].id} ELSE @]
    /\ tts' = [tts EXCEPT ![s] = [did |-> gate, bytes |-> 0]]
    /\ rc_sent' = [rc_sent EXCEPT ![s] = (gate = "running")]
    /\ tpc' = [tpc EXCEPT ![s] = IF gate = "running" THEN "synth" ELSE "get"]

\* one frame of session.receive(): text, then tool call, then end of turn
Recv(s, fr, client) ==
    /\ tpc[s] = "recv"
    /\ LoopFree
    /\ backlog[s] # <<>>
    /\ fr.text # "" /\ ~fr.eot => Len(acc[s]) < MaxText
    /\ LET of == Head(backlog[s])
           text == IF fr.text # "" THEN Append(acc[s], fr.text) ELSE acc[s]
           log1 == IF fr.text # ""
                   THEN EmitIfBound(s, out[s],
                          Ev("TextDelta", client_sid[s], "chunk", <<fr.text>>, 0, of))
                   ELSE out[s]
       IN
       /\ acc' = [acc EXCEPT ![s] = text]
       /\ IF fr.tool # "none"
          THEN IF fr.args = "missing"
               \* dict(function_call_details.args) raises on None
               THEN /\ Crash(s)
                    /\ out' = [out EXCEPT ![s] = log1]
                    /\ UNCHANGED <<toolcur, backlog, fr_sent, rc_sent, tts, completed>>
               ELSE /\ toolcur' = [toolcur EXCEPT ![s] = fr.tool]
                    /\ tpc' = [tpc EXCEPT ![s] = "exec"]
                    /\ out' = [out EXCEPT ![s] = log1]
                    /\ UNCHANGED <<backlog, fr_sent, rc_sent, tts, completed, connected>>
          ELSE IF fr.eot
          THEN LET fallback == Strip(text) = <<>> /\ fr_sent[s]
                   log2 == EmitIfBound(s, log1,
                             IF fallback
                             THEN Ev("Complete", client_sid[s], "fallback", <<>>, 0, cur[s].id)
                             ELSE Ev("Complete", client_sid[s], "acc", Strip(text), 0, cur[s].id))
               IN
               /\ fr_sent' = [fr_sent EXCEPT ![s] = IF fallback THEN FALSE ELSE @]
               /\ backlog' = [backlog EXCEPT ![s] = Tail(@)]
               /\ PostLoop(s, log2, text, rc_sent[s], client)
               /\ UNCHANGED <<toolcur, connected>>
          ELSE /\ out' = [out EXCEPT ![s] = log1]
               /\ UNCHANGED <<toolcur, tpc, backlog, fr_sent, rc_sent, tts,
                              completed,
                              connected>>
    /\ UNCHANGED <<taskField, cur, toolres, deqLog, sendLog,
                   session_responses, message_queue, afterConnect>>

\* the iterator of session.receive() ends (the remote finished the turn with
\* a frame that carries none of the probed attributes)
RecvExhausted(s, client) ==
    /\ tpc[s] = "recv"
    /\ LoopFree
    /\ backlog[s] # <<>>
    /\ backlog' = [backlog EXCEPT ![s] = Tail(@)]
    /\ PostLoop(s, out[s], acc[s], rc_sent[s], client)
    /\ UNCHANGED <<connected, taskField, fr_sent, cur, acc, toolcur, toolres,
                   deqLog, sendLog, session_responses, message_queue, afterConnect>>

\* session.receive() raises
RecvError(s) ==
    /\ tpc[s] = "recv"
    /\ LoopFree
    /\ Crash(s)
    /\ UNCHANGED <<taskField, rc_sent, tts, fr_sent, cur, acc, toolcur, toolres,
                   backlog, out, deqLog, sendLog, completed,
                   session_responses, message_queue, afterConnect>>

\* function_args.get("query"): absent, empty, or a text
Queries == {"None", "", "q"}

\* an executor that searches whatever it is asked
ExecuteFunctionAlwaysSearches(name, query, http, n) ==
    [kind |-> "results", why |-> "", n |-> n, results |-> SearchResults(n),
     searched |-> TRUE]

\* _execute_function(function_name, function_args): the query of the
\* arguments, then the GET on /api/search (status 200, another status, or an
\* exception) with the n products of its JSON; searched tells whether the
\* request was made
ExecuteFunction(name, query, http, n) ==
    IF name = "search_products"
    THEN IF query \in {"None", ""}
         THEN [kind |-> "error", why |-> "No query provided", n |-> 0,
               results |-> <<>>, searched |-> FALSE]
         ELSE IF http = "200"
         THEN [kind |-> "results", why |-> "", n |-> n,
               results |-> SearchResults(n), searched |-> TRUE]
         ELSE IF http = "500"
         THEN [kind |-> "error", why |-> "Search failed with status", n |-> 0,
               results |-> <<>>, searched |-> TRUE]
         ELSE [kind |-> "error", why |-> "Error executing search", n |-> 0,
               results |-> <<>>, searched |-> TRUE]
    ELSE [kind |-> "error", why |-> "Unknown function", n |-> 0,
          results |-> <<>>, searched |-> FALSE]

\* await self._execute_function(...) returns; function_result and the
\* "Here you go!" response_complete are emitted, then the response is sent
ExecDone(s, query, http, n) ==
    /\ tpc[s] = "exec"
    /\ LoopFree
    /\ LET res == ExecuteFunction(toolcur[s], query, http, n)
           of == Head(backlog[s])
           log1 == EmitIfBound(s, out[s],
                     ToolResultEv(client_sid[s], toolcur[s], res.results, of))
       IN
       IF toolcur[s] = "search_products" /\ res.kind = "results"
       THEN /\ fr_sent' = [fr_sent EXCEPT ![s] = TRUE]
            /\ IF rc_sent[s]
               THEN /\ tpc' = [tpc EXCEPT ![s] = "sendtool"]
                    /\ toolres' = [toolres EXCEPT ![s] = res]
                    /\ out' = [out EXCEPT ![s] = log1]
                    /\ UNCHANGED <<rc_sent, completed, connected>>
               ELSE IF SinkBound(s)
               THEN /\ out' = [out EXCEPT ![s] = Append(log1,
                         Ev("Complete", client_sid[s], "fallback", <<>>, 0, cur[s].id))]
                    /\ rc_sent' = [rc_sent EXCEPT ![s] = TRUE]
                    /\ completed' = [completed EXCEPT ![s] = @ \cup {cur[s].id}]
                    /\ tpc' = [tpc EXCEPT ![s] = "sendtool"]
                    /\ toolres' = [toolres EXCEPT ![s] = res]
                    /\ UNCHANGED connected
               \* the local socketio is unbound or None: the emit raises
               ELSE /\ Crash(s)
                    /\ UNCHANGED <<out, rc_sent, completed, toolres>>
       ELSE /\ tpc' = [tpc EXCEPT ![s] = "sendtool"]
            /\ toolres' = [toolres EXCEPT ![s] = res]
            /\ UNCHANGED <<fr_sent, rc_sent, out, completed, connected>>
    /\ UNCHANGED <<taskField, cur, acc, toolcur, backlog, deqLog, sendLog, tts,
                   session_responses, message_queue, afterConnect>>

\* await session.send(input=func_resp, end_of_turn=False) returns; "break"
SendToolOk(s, client) ==
    /\ tpc[s] = "sendtool"
    /\ LoopFree
    /\ toolres' = [toolres EXCEPT ![s] = NoResponse]
    /\ toolcur' = [toolcur EXCEPT ![s] = "none"]
    /\ PostLoop(s, out[s], acc[s], rc_sent[s], client)
    /\ UNCHANGED <<connected, taskField, fr_sent, cur, acc, backlog, deqLog,
                   sendLog, session_responses, message_queue, afterConnect>>

\* that send raises
SendToolFail(s) ==
    /\ tpc[s] = "sendtool"
    /\ LoopFree
    /\ Crash(s)
    /\ UNCHANGED <<taskField, rc_sent, tts, fr_sent, cur, acc, toolcur, toolres,
                   backlog, out, deqLog, sendLog, completed, session_responses,
                   message_queue, afterConnect>>

\* a task whose stream_tts_audio lets the exception of synthesize_speech
\* through to the outer handler of the task
SynthDoneRaises(s, ok, n) ==
    /\ tpc[s] = "synth"
    /\ out' = [out EXCEPT ![s] = @ \o StreamTtsAudio(acc[s], client_sid[s], ok, n)]
    /\ tts' = [tts EXCEPT ![s] = IF ok THEN [did |-> "ok", bytes |-> n]
                                       ELSE [did |-> "failed", bytes |-> 0]]
    /\ rc_sent' = [rc_sent EXCEPT ![s] = IF ok THEN FALSE ELSE @]
    /\ tpc' = [tpc EXCEPT ![s] = IF ok THEN "get" ELSE "crashed"]
    /\ connected' = [connected EXCEPT ![s] = ok]
    /\ UNCHANGED <<taskField, fr_sent, cur, acc, toolcur, toolres, backlog,
                   deqLog, sendLog, completed, session_responses, message_queue,
                   afterConnect>>

\* a task that puts the audio in front of the response_complete it follows
SynthDoneAudioFirst(s, ok, n) ==
    /\ tpc[s] = "synth"
    /\ out' = [out EXCEPT ![s] =
         SubSeq(@, 1, Len(@) - 1) \o StreamTtsAudio(acc[s], client_sid[s], ok, n)
         \o <<@[Len(@)]>>]
    /\ tts' = [tts EXCEPT ![s] = IF ok THEN [did |-> "ok", bytes |-> n]
                                       ELSE [did |-> "failed", bytes |-> 0]]
    /\ rc_sent' = [rc_sent EXCEPT ![s] = FALSE]
    /\ tpc' = [tpc EXCEPT ![s] = "get"]
    /\ UNCHANGED <<connected, taskField, fr_sent, cur, acc, toolcur, toolres,
                   backlog, deqLog, sendLog, completed, session_responses,
                   message_queue, afterConnect>>

\* synthesize_speech returns n bytes (ok) or raises: the chunks and
\* audio_stream_end are emitted, or the exception is logged; stream_tts_audio
\* returns, the flag is reset and the task is back at its queue. Nothing else
\* has run on the loop since the response_complete of PostLoop.
SynthDone(s, ok, n) ==
    /\ tpc[s] = "synth"
    /\ out' = [out EXCEPT ![s] = @ \o StreamTtsAudio(acc[s], client_sid[s], ok, n)]
    /\ tts' = [tts EXCEPT ![s] = IF ok THEN [did |-> "ok", bytes |-> n]
                                       ELSE [did |-> "failed", bytes |-> 0]]
    /\ rc_sent' = [rc_sent EXCEPT ![s] = FALSE]
    /\ tpc' = [tpc EXCEPT ![s] = "get"]
    /\ UNCHANGED <<connected, taskField, fr_sent, cur, acc, toolcur, toolres,
                   backlog, deqLog, sendLog, completed, session_responses,
                   message_queue, afterConnect>>

\* the "async with" is left after the break on None: connected False, task None
CloseDone(s) ==
    /\ tpc[s] = "closing"
    /\ LoopFree
    /\ connected' = [connected EXCEPT ![s] = FALSE]
    /\ taskField' = [taskField EXCEPT ![s] = "None"]
    /\ tpc' = [tpc EXCEPT ![s] = "ended"]
    /\ UNCHANGED <<rc_sent, tts, fr_sent, cur, acc, toolcur, toolres, backlog, out,
                   deqLog, sendLog, completed, session_responses, message_queue,
                   afterConnect>>

(* ----------------------------- end_session ----------------------------- *)

endFrame == <<connected, taskField, rc_sent, tts, fr_sent, cur, acc, toolcur,
              toolres, backlog, out, deqLog, sendLog, completed, client_sid,
              nextMsg, created, submitRes, handshake, aside>>

\* a teardown that forgets the response entry
RemoveActiveOnly(s) ==
    /\ active_sessions' = active_sessions \ {s}
    /\ UNCHANGED session_responses

\* a teardown that empties both registries
RemoveEverySession(s) ==
    /\ active_sessions' = {}
    /\ session_responses' = {}

\* del self.active_sessions[session_id]; del self.session_responses[...]
\* (the "except" branch of end_session deletes the same two entries)
RemoveSession(s) ==
    /\ active_sessions' = active_sessions \ {s}
    /\ session_responses' = session_responses \ {s}

\* what end_session returns: it has no return statement with a value
EndSessionResult(found) == "None"

\* an end_session that does not await the task
EndNeverWaits(s) == FALSE
\* whether end_session has a task to wait for
EndMustWait(s) == taskField[s] # "None"

\* end_session(session_id) up to its first suspension
EndSessionCall(c, s) ==
    /\ LoopFree
    /\ epc[c] = "idle"
    /\ esid' = [esid EXCEPT ![c] = s]
    /\ efound' = [efound EXCEPT ![c] = s \in active_sessions]
    /\ IF s \notin active_sessions
       THEN /\ epc' = [epc EXCEPT ![c] = "returned"]
            /\ eret' = [eret EXCEPT ![c] = EndSessionResult(FALSE)]
            /\ UNCHANGED <<active_sessions, session_responses, message_queue,
                           einflight>>
       ELSE /\ message_queue' = [message_queue EXCEPT ![s] = QueuePut(@, Terminate)]
            /\ einflight' = [einflight EXCEPT ![c] =
                 IF TurnInFlight(s) /\ SinkBound(s) THEN cur[s].id ELSE 0]
            /\ IF EndMustWait(s)
               THEN /\ epc' = [epc EXCEPT ![c] = "waiting"]
                    /\ UNCHANGED <<active_sessions, session_responses, eret>>
               ELSE /\ RemoveSession(s)
                    /\ epc' = [epc EXCEPT ![c] = "returned"]
                    /\ eret' = [eret EXCEPT ![c] = EndSessionResult(TRUE)]
    /\ UNCHANGED <<tpc, endFrame>>

\* asyncio.wait_for(task, 5.0) returns because the task has returned
EndTaskDone(c) ==
    /\ LoopFree
    /\ epc[c] = "waiting"
    /\ tpc[esid[c]] \in {"ended", "crashed"}
    /\ RemoveSession(esid[c])
    /\ epc' = [epc EXCEPT ![c] = "returned"]
    /\ eret' = [eret EXCEPT ![c] = EndSessionResult(TRUE)]
    /\ UNCHANGED <<tpc, message_queue, esid, efound, einflight, endFrame>>

\* the 5 s pass with the task still running: wait_for cancels the task,
\* which takes the CancelledError at the await it is suspended on
EndTimeout(c) ==
    /\ LoopFree
    /\ epc[c] = "waiting"
    /\ TaskRunning(esid[c])
    /\ tpc' = [tpc EXCEPT ![esid[c]] = "cancelled"]
    /\ epc' = [epc EXCEPT ![c] = "reaping"]
    /\ UNCHANGED <<active_sessions, session_responses, message_queue, esid,
                   eret, efound, einflight, endFrame>>

\* "except asyncio.TimeoutError": task.cancel(), await task, then the deletes
EndReap(c) ==
    /\ LoopFree
    /\ epc[c] = "reaping"
    /\ RemoveSession(esid[c])
    /\ epc' = [epc EXCEPT ![c] = "returned"]
    /\ eret' = [eret EXCEPT ![c] = EndSessionResult(TRUE)]
    /\ UNCHANGED <<tpc, message_queue, esid, efound, einflight, endFrame>>

\* wait_for finds the task cancelled by another call: CancelledError is no
\* Exception, so it leaves end_session past both handlers
EndAbort(c) ==
    /\ LoopFree
    /\ epc[c] = "waiting"
    /\ tpc[esid[c]] = "cancelled"
    /\ epc' = [epc EXCEPT ![c] = "raised"]
    /\ UNCHANGED <<active_sessions, session_responses, tpc, message_queue, esid,
                   eret, efound, einflight, endFrame>>

(* ------------------------- GeminiLive2Service -------------------------- *)

\* a write to self.sessions or to the state of a session: the method that
\* makes it, what it writes, and where it runs: "transport" when a Socket.IO
\* handler or a route calls the method on its own thread, "loop" when the
\* write is in a coroutine submitted with asyncio.run_coroutine_threadsafe
Wr(by, what, on) == [by |-> by, what |-> what, on |-> on]

\* uuid4 values are drawn in a fixed order: the ids are interchangeable
Live2Rank(a) == IF a = "a1" THEN 1 ELSE 2
Live2Fresh(a) ==
    a \notin sessions /\ \A b \in Live2Ids \ sessions : Live2Rank(a) <= Live2Rank(b)

\* the ids a client can name: those it was given, and ids never issued
Live2Known == issued \cup {UnknownId}

\* session_id not in self.sessions or not self.sessions[session_id]["active"]
Live2Invalid(a) == a \notin sessions \/ ~active[a]

\* "gemini_session" in session and session["gemini_session"]: set once the
\* connection is open and never removed
Live2HasGemini(a) == stream_task[a] \in {"streaming", "exited"}

\* the video frames handle_video_frame was given for a registered session
Live2Frames(a) == video[a].sent + video[a].failed + video[a].skipped

\* create_session(), alone (POST /api/live2/start) or followed by set_socketio
\* and the scheduling of process_streaming (on_start_live2_session)
Live2CreateSession(a, streaming) ==
    /\ Live2Fresh(a)
    /\ sessions' = sessions \cup {a}
    /\ active' = [active EXCEPT ![a] = TRUE]
    /\ audio' = [audio EXCEPT ![a] = 0]
    /\ out_queue' = [out_queue EXCEPT ![a] = <<>>]
    /\ stream_task' = [stream_task EXCEPT ![a] = IF streaming THEN "start" ELSE "None"]
    /\ issued' = issued \cup {a}
    /\ creates' = creates + 1
    /\ l2writes' = l2writes \cup {Wr("create_session", "sessions", "transport")}
          \cup (IF streaming
                THEN {Wr("set_socketio", "socketio", "transport"),
                      Wr("on_start_live2_session", "stream_task", "transport")}
                ELSE {})
    /\ UNCHANGED <<video, l2tool, ended, l2put, l2sent, liveVars>>

\* an end_session that deletes the entry
Live2EndSessionForgets(a) == sessions \ {a}
\* the keys of self.sessions after end_session(a): the entry is kept
Live2EndSessionKeys(a) == sessions

\* end_session(session_id)
Live2EndSession(a) ==
    /\ ended' = ended \cup {a}
    /\ IF a \in sessions
       THEN /\ active' = [active EXCEPT ![a] = FALSE]
            /\ sessions' = Live2EndSessionKeys(a)
            /\ l2writes' = l2writes \cup {Wr("end_session", "active", "transport")}
       ELSE UNCHANGED <<active, sessions, l2writes>>
    /\ UNCHANGED <<audio, out_queue, l2put, l2sent, stream_task, video, l2tool, issued,
                   creates, liveVars>>

\* the audio chunks, video frames and tool-call frames the registered
\* sessions have been given so far
Live2Inputs ==
    LET n(a) == audio[a] + Live2Frames(a) + l2tool[a].frames IN n("a1") + n("a2")

\* the place of an item among the audio chunks and video frames the
\* transport has submitted for a session
Live2Submitted(a) == audio[a] + Live2Frames(a)

\* handle_audio_chunk(session_id, pcm_bytes): the coroutine
\* out_queue.put(item) is scheduled on the loop and the chunk appended to
\* session["audio"]
Live2HandleAudioChunk(a) ==
    /\ Live2Inputs < MaxChunks
    /\ IF Live2Invalid(a)
       THEN UNCHANGED <<audio, l2put, l2writes>>
       ELSE /\ l2put' = [l2put EXCEPT ![a].ready = Append(@, Live2Submitted(a) + 1)]
            /\ audio' = [audio EXCEPT ![a] = @ + 1]
            /\ l2writes' = l2writes \cup {Wr("handle_audio_chunk", "audio", "transport")}
    /\ UNCHANGED <<sessions, active, out_queue, l2sent, stream_task, video, l2tool,
                   issued, ended, creates, liveVars>>

\* asyncio.Queue.put, one run of the coroutine on the loop, first or after
\* its wake-up: "while self.full()" it queues a future behind those of
\* self._putters and waits; otherwise put_nowait(item)
OutQueuePut(a) ==
    /\ l2put[a].ready # <<>>
    /\ l2writes' = l2writes \cup {Wr("handle_audio_chunk", "out_queue", "loop")}
    /\ LET item == Head(l2put[a].ready) IN
       IF Len(out_queue[a]) < MaxOutQueue
       THEN /\ out_queue' = [out_queue EXCEPT ![a] = Append(@, item)]
            /\ l2put' = [l2put EXCEPT ![a].ready = Tail(@)]
       ELSE /\ l2put' = [l2put EXCEPT ![a] =
                   [ready |-> Tail(@.ready), waiting |-> Append(@.waiting, item)]]
            /\ UNCHANGED out_queue
    /\ UNCHANGED <<sessions, active, audio, l2sent, stream_task, video, l2tool,
                   issued, ended, creates, liveVars>>

\* handle_video_frame(session_id, frame_data_url): with a connection the
\* decoding raises NameError (the module does not import base64), which is
\* caught and logged; without one the frame is only logged
Live2HandleVideoFrame(a) ==
    /\ Live2Inputs < MaxChunks
    /\ IF Live2Invalid(a)
       THEN UNCHANGED video
       ELSE IF Live2HasGemini(a)
       THEN video' = [video EXCEPT ![a].failed = @ + 1]
       ELSE video' = [video EXCEPT ![a].skipped = @ + 1]
    /\ UNCHANGED <<sessions, active, audio, out_queue, stream_task, l2tool, issued,
                   ended, creates, l2put, l2sent, l2writes, liveVars>>

\* process_streaming: client.aio.live.connect returns or raises; with the
\* connection open the "while session['active']" is tested at once, and a
\* session ended meanwhile never enters the receive loop
ProcessStreamingConnect(a, ok) ==
    /\ stream_task[a] = "start"
    /\ stream_task' = [stream_task EXCEPT ![a] =
          IF ~ok THEN "failed" ELSE IF active[a] THEN "streaming" ELSE "exited"]
    /\ l2writes' = IF ok THEN l2writes \cup {Wr("process_streaming", "gemini_session", "loop")}
                   ELSE l2writes
    /\ UNCHANGED <<sessions, active, audio, out_queue, video, l2tool, issued,
                   ended, creates, l2put, l2sent, liveVars>>

\* _send_to_gemini: out_queue.get() takes the oldest item, which wakes the
\* first waiting put (get_nowait calls _wakeup_next(self._putters)): that
\* coroutine is made ready to run, behind what the loop already has to run;
\* the item is handed to gemini_session.send
SendToGemini(a) ==
    /\ stream_task[a] = "streaming" /\ active[a]
    /\ out_queue[a] # <<>>
    /\ out_queue' = [out_queue EXCEPT ![a] = Tail(@)]
    /\ l2sent' = [l2sent EXCEPT ![a] = Append(@, Head(out_queue[a]))]
    /\ l2writes' = l2writes \cup {Wr("_send_to_gemini", "out_queue", "loop")}
    /\ l2put' = [l2put EXCEPT ![a] =
          IF @.waiting = <<>> THEN @
          ELSE [ready |-> Append(@.ready, Head(@.waiting)), waiting |-> Tail(@.waiting)]]
    /\ UNCHANGED <<sessions, active, audio, stream_task, video, l2tool, issued,
                   ended, creates, liveVars>>

\* process_streaming: session["active"] is read only at the "while" of line
\* 86, which the task reaches again when the "async for" over
\* gemini_session.receive() is over: the remote has ended its turn, or has
\* closed the connection (receive() raises into line 127). With the flag
\* False the sender is then cancelled and awaited and the connection closed.
\* The step is the remote's: without a frame of the remote the task stays
\* in receive().
ProcessStreamingExit(a) ==
    /\ stream_task[a] = "streaming" /\ ~active[a]
    /\ stream_task' = [stream_task EXCEPT ![a] = "exited"]
    /\ UNCHANGED <<sessions, active, audio, out_queue, video, l2tool, issued,
                   ended, creates, l2put, l2sent, l2writes, liveVars>>

\* process_streaming, one tool-call frame of gemini_session.receive(): the
\* first call is read; for search_products with arguments a product is made
\* up and shown to the client that started the stream (set_socketio precedes
\* process_streaming); dict(None) raises into the "except" of the frame.
\* Nothing is sent to the remote on any path.
Live2ReceiveToolCall(a, name, args, more) ==
    /\ stream_task[a] = "streaming"
    /\ Live2Inputs < MaxChunks
    /\ l2tool' = [l2tool EXCEPT
         ![a].frames = @ + 1,
         ![a].shown = IF name = "search_products" /\ args = "dict" THEN @ + 1 ELSE @]
    /\ UNCHANGED <<sessions, active, audio, out_queue, stream_task, video, issued,
                   ended, creates, l2put, l2sent, l2writes, liveVars>>

\* get_status()
GetStatus ==
    [active_sessions |-> {a \in sessions : active[a]},
     total_sessions |-> Cardinality(sessions)]

(* ---------------------------- specification ---------------------------- *)

\* clients and callers are interchangeable: a fresh one is taken in a fixed
\* order, so that runs differing only in their names are explored once
Rank(x) == IF x \in {"c1", "e1"} THEN 1 ELSE 2
FirstUse(x, all, used) ==
    x \in used \/ \A y \in all \ used : Rank(x) <= Rank(y)
usedClients ==
    {c \in Clients : \E s \in SessionIds :
        \/ client_sid[s] = c
        \/ \E i \in DOMAIN message_queue[s] : message_queue[s][i].by = c
        \/ cur[s].by = c}

\* the steps of the transport and of the background tasks, for the clients
\* and the frame kinds the transport brings
TaskSteps(clients, frameKinds, itemCounts, audioLens, frames) ==
    \/ \E s \in LiveIds : CreateSession(s)
    \/ \E s \in LiveIds, c \in clients, f \in frameKinds :
          FirstUse(c, clients, usedClients) /\ ProcessUserMessageSocketio(s, c, f)
    \/ \E s \in LiveIds : ProcessUserMessage(s)
    \/ \E s \in LiveIds : TaskStart(s)
    \/ \E s \in LiveIds : ConnectOk(s)
    \/ \E s \in LiveIds : ConnectFail(s)
    \/ \E s \in LiveIds : Dequeue(s)
    \/ \E s \in LiveIds : SendOk(s)
    \/ \E s \in LiveIds : SendFail(s)
    \/ \E s \in LiveIds, fr \in frames, client \in BOOLEAN : Recv(s, fr, client)
    \/ \E s \in LiveIds, client \in BOOLEAN : RecvExhausted(s, client)
    \/ \E s \in LiveIds : RecvError(s)
    \/ \E s \in LiveIds, q \in Queries, h \in {"200", "500", "raise"},
          n \in itemCounts : ExecDone(s, q, h, n)
    \/ \E s \in LiveIds, client \in BOOLEAN : SendToolOk(s, client)
    \/ \E s \in LiveIds, ok \in BOOLEAN, n \in audioLens : SynthDone(s, ok, n)
    \/ \E s \in LiveIds : SendToolFail(s)
    \/ \E s \in LiveIds : CloseDone(s)

\* the steps of the end_session calls of the given callers
EndSteps(callers) ==
    \/ \E c \in callers, s \in LiveIds :
          FirstUse(c, callers, {d \in callers : epc[d] # "idle"}) /\ EndSessionCall(c, s)
    \/ \E c \in callers : EndTaskDone(c)
    \/ \E c \in callers : EndTimeout(c)
    \/ \E c \in callers : EndReap(c)

\* one session with every kind of message and one end_session call
Next == TaskSteps(Clients, FrameKinds, 0..MaxItems, AudioLens, Frames) \/ EndSteps({"e1"})
Spec == Init /\ [][Next]_vars

\* one session with text messages of one client and two end_session calls,
\* successive or overlapping
NextEnd ==
    \/ TaskSteps({"c1"}, {"none"}, 0..MaxItems, AudioLens, Frames)
    \/ EndSteps(Callers)
    \/ \E c \in Callers : EndAbort(c)
SpecEnd == Init /\ [][NextEnd]_vars

\* one session with text messages of one client, video frames and one
\* end_session call
NextVideo ==
    \/ TaskSteps({"c1"}, {"none"}, 0..MaxItems, AudioLens, Frames)
    \/ EndSteps({"e1"})
    \/ \E s \in LiveIds, f \in FrameKinds : HandleVideoFrame(s, f)
SpecVideo == Init /\ [][NextVideo]_vars

\* the Live2 service with every id create_session can draw
NextLive2 ==
    \/ \E a \in Live2Ids, streaming \in BOOLEAN : Live2CreateSession(a, streaming)
    \/ \E a \in Live2Known : Live2EndSession(a)
    \/ \E a \in Live2Known : Live2HandleAudioChunk(a)
    \/ \E a \in Live2Known : Live2HandleVideoFrame(a)
    \/ \E a \in Live2Ids, ok \in BOOLEAN : ProcessStreamingConnect(a, ok)
    \/ \E a \in Live2Ids : OutQueuePut(a)
    \/ \E a \in Live2Ids : SendToGemini(a)
    \/ \E a \in Live2Ids : ProcessStreamingExit(a)
    \/ \E a \in Live2Ids, name \in ToolNames, args \in ArgKinds, more \in 0..MaxMore :
          Live2ReceiveToolCall(a, name, args, more)
SpecLive2 == Init /\ [][NextLive2]_vars

\* the steps a Live2 task takes by itself once it is scheduled on the loop:
\* the connecting, the puts on out_queue and the sending of the queued items;
\* what arrives from the remote (tool-call frames, the end of a turn) is not among them
Live2OwnSteps(a) ==
    \/ \E ok \in BOOLEAN : ProcessStreamingConnect(a, ok)
    \/ OutQueuePut(a)
    \/ SendToGemini(a)
\* the Live2 service on a loop that runs every task that can run
SpecLive2Fair == SpecLive2 /\ \A a \in Live2Ids : WF_vars(Live2OwnSteps(a))

\* one session with text messages of one client, one end_session call and a
\* caller that creates a session under the id of a registered one
NextReuse ==
    \/ TaskSteps({"c1"}, {"none"}, 0..MaxItems, AudioLens, Frames)
    \/ EndSteps({"e1"})
    \/ \E s \in LiveIds : CreateSessionWithId(s)
SpecReuse == Init /\ [][NextReuse]_vars

\* one session with text messages of one client, tool-call frames of one or
\* more calls and searches that return up to MaxItems more products than the
\* MaxSurfaced a tool result may carry
NextTool ==
    \/ TaskSteps({"c1"}, {"none"}, 0..(MaxSurfaced + MaxItems), AudioLens,
                 Frames \cup MultiCallFrames)
    \/ EndSteps({"e1"})
SpecTool == Init /\ [][NextTool]_vars

\* one session with text messages of one client, one end_session call and
\* synthesized audio of every length of AudioLensAll
NextAudio ==
    \/ TaskSteps({"c1"}, {"none"}, {0}, AudioLensAll, Frames)
    \/ EndSteps({"e1"})
SpecAudio == Init /\ [][NextAudio]_vars

\* one session with text messages of one client and one end_session call,
\* and a remote whose text fragments may be white space
NextText ==
    \/ TaskSteps({"c1"}, {"none"}, 0..MaxItems, AudioLens, Frames \cup BlankFrames)
    \/ EndSteps({"e1"})
SpecText == Init /\ [][NextText]_vars

\* one session with messages of one client that carry no frame, a frame
\* that can be decoded or one that cannot, and one end_session call
NextMedia ==
    \/ TaskSteps({"c1"}, FrameKinds, {0}, AudioLens, Frames)
    \/ EndSteps({"e1"})
SpecMedia == Init /\ [][NextMedia]_vars

\* a second session on the same loop, driven over the HTTP route
OtherIds == SessionIds \ LiveIds
\* the session of a Socket.IO client and one end_session call, next to the
\* task of a second session that takes text messages without a client
NextTwo ==
    \/ TaskSteps({"c1"}, {"none"}, {0}, AudioLens, Frames)
    \/ EndSteps({"e1"})
    \/ \E s \in OtherIds : CreateSession(s)
    \/ \E s \in OtherIds : ProcessUserMessage(s)
    \/ \E s \in OtherIds : TaskStart(s)
    \/ \E s \in OtherIds : ConnectOk(s)
    \/ \E s \in OtherIds : Dequeue(s)
    \/ \E s \in OtherIds : SendOk(s)
    \/ \E s \in OtherIds, client \in BOOLEAN : RecvExhausted(s, client)
SpecTwo == Init /\ [][NextTwo]_vars

\* the frames of the remote that carry no text: tool calls and ends of turn
QuietFrames == {fr \in Frames : fr.text = ""}
\* two sessions of one client on the same loop: the first with turns of tool
\* calls, failures of the remote and an end_session call, the second with
\* turns the remote ends at once
NextPair ==
    \/ \E s \in SessionIds : CreateSession(s)
    \/ \E s \in SessionIds : ProcessUserMessageSocketio(s, "c1", "none")
    \/ \E s \in SessionIds : TaskStart(s)
    \/ \E s \in SessionIds : ConnectOk(s)
    \/ \E s \in LiveIds : ConnectFail(s)
    \/ \E s \in SessionIds : Dequeue(s)
    \/ \E s \in SessionIds : SendOk(s)
    \/ \E s \in LiveIds, fr \in QuietFrames : Recv(s, fr, FALSE)
    \/ \E s \in SessionIds : RecvExhausted(s, FALSE)
    \/ \E s \in LiveIds : RecvError(s)
    \/ \E s \in LiveIds : ExecDone(s, "q", "200", 0)
    \/ \E s \in LiveIds : SendToolOk(s, FALSE)
    \/ \E s \in LiveIds : CloseDone(s)
    \/ EndSteps({"e1"})
SpecPair == Init /\ [][NextPair]_vars

\* the steps of the background task of a session, whatever the remote
\* sends and the executor returns; the failures of the connection are not
\* among them
TaskMoves(s) ==
    \/ TaskStart(s)
    \/ ConnectOk(s)
    \/ Dequeue(s)
    \/ SendOk(s)
    \/ \E fr \in Frames, client \in BOOLEAN : Recv(s, fr, client)
    \/ \E client \in BOOLEAN : RecvExhausted(s, client)
    \/ \E q \in Queries, h \in {"200", "500", "raise"}, n \in 0..MaxItems :
          ExecDone(s, q, h, n)
    \/ \E client \in BOOLEAN : SendToolOk(s, client)
    \/ \E ok \in BOOLEAN, n \in AudioLens : SynthDone(s, ok, n)
\* one session of one client on which end_session is never called, with a
\* remote that accepts the handshake and every send and answers every
\* message up to the end of its turn
NextAnswered ==
    \/ \E s \in LiveIds : CreateSession(s)
    \/ \E s \in LiveIds, f \in FrameKinds : ProcessUserMessageSocketio(s, "c1", f)
    \/ \E s \in LiveIds : TaskMoves(s)
\* the loop runs the task whenever it can take a step
SpecAnswered ==
    Init /\ [][NextAnswered]_vars /\ \A s \in LiveIds : WF_vars(TaskMoves(s))

(* ------------------------------- claims -------------------------------- *)

\* C1: in every turn (since the last dequeue) at most one Complete event
\* (response_complete) has been emitted to the client.
C1_AtMostOneCompletePerTurn ==
    \A s \in SessionIds : Count(out[s], "Complete") <= 1

\* C2: no accepted user message waits in the queue of a session whose
\* Terminate was enqueued before it or was already dequeued: such a
\* submission is rejected instead.
C2_NoMessageAcceptedAfterTerminate ==
    \A s \in SessionIds : \A j \in DOMAIN message_queue[s] :
        message_queue[s][j] # Terminate =>
            /\ tpc[s] \notin {"closing", "ended"}
            /\ \A i \in 1..(j - 1) : message_queue[s][i] # Terminate

\* C3: an end_session call that found the id registered returns true, one
\* that did not returns false.
C3_EndSessionTrueThenFalse ==
    \A c \in Callers :
        epc[c] = "returned" => eret[c] = (IF efound[c] THEN "True" ELSE "False")

\* C4: once a failed handshake has been handled, create_session has reported
\* a failure and active_sessions holds no entry for the id.
C4_FailedHandshakeLeavesNoEntry ==
    \A s \in SessionIds :
        handshake[s] = "failed" =>
            /\ created[s] \notin {"connected", "not_connected"}
            /\ s \notin active_sessions

\* C5: every registered id has a running task, or is being torn down by an
\* end_session call that has still to remove it.
C5_NoZombieEntry ==
    \A s \in active_sessions :
        \/ TaskRunning(s)
        \/ \E c \in Callers : esid[c] = s /\ epc[c] \in {"waiting", "reaping"}

\* C6: the task dequeues the messages in the order they were put on the
\* queue (the ids 1, 2, ... given at the put), and forwards to the remote a
\* subsequence of them in that order, each at most once.
C6_FifoOrder ==
    \A s \in SessionIds :
        /\ deqLog[s] = [i \in 1..Len(deqLog[s]) |-> i]
        /\ \A i, j \in DOMAIN sendLog[s] : i < j => sendLog[s][i] < sendLog[s][j]
        /\ \A i \in DOMAIN sendLog[s] : \E j \in DOMAIN deqLog[s] : deqLog[s][j] = sendLog[s][i]

\* two messages were forwarded, the second enqueued while the first turn
\* was being processed or before
C6_Witness ==
    \E s \in SessionIds : sendLog[s] = <<1, 2>>

C8_EndSessionReleasesEverything ==
    \A c \in Callers :
        epc[c] = "returned" /\ efound[c] =>
            /\ ~TaskRunning(esid[c])
            /\ esid[c] \notin active_sessions
            /\ esid[c] \notin session_responses

\* an end_session returned after its wait timed out and the task was cancelled
C8_Witness ==
    \E c \in Callers :
        epc[c] = "returned" /\ efound[c] /\ tpc[esid[c]] = "cancelled"

\* C9: when create_session returned the id, the handshake had completed.
C9_CreateReturnsConnected ==
    \A s \in SessionIds : created[s] # "none" => created[s] = "connected"

\* C10: a task that ended on a remote error after the handshake, in a
\* session with a client, has emitted an Error event to that client.
C10_RemoteErrorEmitsError ==
    \A s \in SessionIds :
        tpc[s] = "crashed" /\ handshake[s] = "ok" /\ SinkBound(s) =>
            Count(out[s], "Error") >= 1

\* C11: every failed send of a user message (with or without a frame), every
\* failed receive and every failed send of a tool response ends the task: the
\* step that takes the failure leaves the task in its outer handler, never
\* back at the queue.
C11_RemoteFailureEndsTask ==
    [][\A s \in SessionIds :
          (SendFail(s) \/ RecvError(s) \/ SendToolFail(s)) => tpc'[s] = "crashed"]_vars

\* the turn's tool call was search_products, the search returned products
\* and no text fragment has arrived in the turn
SearchTurnNoText(s) ==
    /\ tpc[s] = "sendtool" /\ SinkBound(s)
    /\ toolcur[s] = "search_products"
    /\ toolres[s].kind = "results" /\ toolres[s].results # <<>>
    /\ acc[s] = <<>>

\* C12: in a turn in which the remote asked for search_products, the search
\* returned a non-empty list and no text fragment arrived, the client has been
\* sent a ToolResult carrying the returned products (same number, same order)
\* and then a Complete with the text "Here you go!", and nothing else.
C12_SearchTurnToolResultThenHereYouGo ==
    \A s \in SessionIds :
        SearchTurnNoText(s) =>
            /\ Len(out[s]) = 2
            /\ out[s][1].type = "ToolResult" /\ out[s][1].to \in Clients
            /\ Len(out[s][1].items) = Len(toolres[s].results)
            /\ \A i \in DOMAIN toolres[s].results :
                  out[s][1].items[i].id = toolres[s].results[i].id
            /\ out[s][2].type = "Complete" /\ out[s][2].kind = "fallback"
            /\ out[s][2].to = out[s][1].to

\* such a turn with a search that returned several products
C12_Witness ==
    \E s \in SessionIds :
        SearchTurnNoText(s) /\ Len(toolres[s].results) >= 2 /\ Len(out[s]) = 2

\* the log holds one TextDelta per fragment of text, in order, and no more
TextDeltasOnly(log, text) ==
    /\ Len(log) = Len(text)
    /\ \A i \in DOMAIN log : log[i].type = "TextDelta" /\ log[i].frags = <<text[i]>>

\* the log of a text turn: the TextDeltas, one Complete with the accumulated
\* text, then the AudioChunks and one AudioStreamEnd (no audio at all when
\* the synthesis is unavailable)
TextTurnLog(log, text) ==
    LET k == Len(text) IN
    /\ Len(log) > k
    /\ TextDeltasOnly(SubSeq(log, 1, k), text)
    /\ log[k + 1].type = "Complete" /\ log[k + 1].frags = Strip(text)
    /\ \A i \in (k + 2)..Len(log) :
          IF i = Len(log) THEN log[i].type = "AudioStreamEnd"
          ELSE log[i].type = "AudioChunk"

\* C13: the step that takes the end-of-turn marker of a turn without tool
\* call, in which the fragments t1..tn were each sent to the client as a
\* TextDelta, leaves exactly TextDelta(t1), ..., TextDelta(tn) and one Complete
\* with the accumulated text; the synthesis that follows adds the AudioChunks
\* and one AudioStreamEnd to them and nothing else.
C13_TextTurnEventSequence ==
    [][\A s \in SessionIds :
          /\ \A fr \in Frames, client \in BOOLEAN :
                /\ Recv(s, fr, client) /\ fr.eot /\ SinkBound(s)
                /\ TextDeltasOnly(out[s], acc[s])
                => /\ TextTurnLog(out'[s], acc'[s])
                   /\ Len(out'[s]) = Len(acc'[s]) + 1
          /\ /\ tpc[s] = "synth" /\ tpc'[s] = "get"
             /\ Len(out[s]) > Len(acc[s])
             /\ TextDeltasOnly(SubSeq(out[s], 1, Len(acc[s])), acc[s])
             => TextTurnLog(out'[s], acc[s])]_vars

\* C14: a tool call that fails (the search request fails, answers with another
\* status than 200 or raises, the query is empty, or the tool-call frame has
\* no arguments) leaves the task connected and about to send a structured
\* error as the tool response.
C14_ToolFailureKeepsSession ==
    [][\A s \in SessionIds :
          \/ \E fr \in Frames, client \in BOOLEAN :
                Recv(s, fr, client) /\ fr.tool = "search_products" /\ fr.args = "missing"
          \/ /\ toolcur[s] = "search_products"
             /\ \E q \in Queries, h \in {"200", "500", "raise"} :
                   (q # "q" \/ h # "200") /\ ExecDone(s, q, h, 0)
          => /\ connected'[s]
             /\ tpc'[s] \in {"exec", "sendtool"}
             /\ tpc'[s] = "sendtool" => toolres'[s].kind = "error"]_vars

\* C15: _execute_function returns a structured error, and does not raise,
\* for every function name but search_products; for search_products with an
\* absent or empty query it returns a structured error and makes no search.
\* Stated for every input of the function and for the response the task
\* holds after it applied the function to another name.
C15_ExecuteFunctionRejects ==
    /\ \A q \in Queries, h \in {"200", "500", "raise"}, n \in 0..(MaxSurfaced + MaxItems) :
          /\ \A name \in ToolNames \ {"search_products"} :
                LET r == ExecuteFunction(name, q, h, n) IN
                r.kind = "error" /\ r.why = "Unknown function" /\ ~r.searched
          /\ q \in {"None", ""} =>
                LET r == ExecuteFunction("search_products", q, h, n) IN
                r.kind = "error" /\ r.why = "No query provided" /\ ~r.searched
    /\ \A s \in SessionIds :
          tpc[s] = "sendtool" /\ toolcur[s] # "search_products" =>
              /\ toolres[s].kind = "error" /\ toolres[s].results = <<>>
              /\ toolres[s].why = "Unknown function" /\ ~toolres[s].searched

\* the error of an unknown function is about to be sent back as tool response
C15_Witness ==
    \E s \in SessionIds :
        /\ tpc[s] = "sendtool" /\ toolcur[s] = "other"
        /\ toolres[s].why = "Unknown function"

\* C16: the tool response the task is sending to the remote for a
\* search_products call carries at most MaxSurfaced products.
C16_ToolResponseAtMostFive ==
    \A s \in SessionIds :
        tpc[s] = "sendtool" /\ toolcur[s] = "search_products" =>
            Len(toolres[s].results) <= MaxSurfaced

\* C17: a message, a video frame or an end_session that names an id the
\* registry does not hold is answered with an error the client sees, and
\* changes neither the registry nor any session.
C17_UnknownSessionIsAnError ==
    [][\A s \in SessionIds :
          s \notin active_sessions =>
            /\ (\/ \E c \in Clients, f \in FrameKinds : ProcessUserMessageSocketio(s, c, f)
                \/ \E f \in FrameKinds : HandleVideoFrame(s, f))
               => /\ submitRes'[s] = "Session not found"
                  /\ UNCHANGED <<active_sessions, session_responses, message_queue,
                                 taskVars>>
            /\ \A c \in Callers :
                  EndSessionCall(c, s)
                  => /\ HandleEndSessionEmit(epc'[c]) = "error"
                     /\ UNCHANGED <<active_sessions, session_responses, taskVars>>]_vars

\* C18: get_status reports as active_sessions the ids create_session has
\* returned and end_session has not been called with, and as total_sessions
\* the number of create_session calls; total_sessions never decreases.
C18_GetStatusCounts ==
    /\ [](/\ GetStatus.active_sessions = issued \ ended
          /\ GetStatus.total_sessions = creates)
    /\ [][GetStatus'.total_sessions >= GetStatus.total_sessions]_vars

\* two sessions were created, chunks and frames were handled, one was ended
C18_Witness ==
    /\ creates = 2 /\ Cardinality(GetStatus.active_sessions) = 1
    /\ \E a \in ended \cap issued : audio[a] > 0 /\ Live2Frames(a) > 0

\* C19: every session id has at most one running task and at most one open
\* remote connection.
C19_OneTaskOneConnection ==
    \A s \in SessionIds : RunningTasks(s) <= 1 /\ OpenConnections(s) <= 1

\* C20: a message submitted for a registered session whose handshake is
\* still in flight is put on the session's queue (and so processed once the
\* connection is open): it is neither rejected nor dropped.
C20_BufferedWhileConnecting ==
    [][\A s \in SessionIds :
          /\ s \in active_sessions /\ tpc[s] \in {"start", "connecting"}
          /\ \/ \E c \in Clients, f \in FrameKinds : ProcessUserMessageSocketio(s, c, f)
             \/ ProcessUserMessage(s)
          => /\ submitRes'[s] = "processing"
             /\ Len(message_queue'[s]) = Len(message_queue[s]) + 1]_vars

\* C21: a failure of the speech synthesis (no TTS client, or synthesize_speech
\* raising) at the end of a turn leaves that turn's response_complete in
\* place and the task alive: it is back at its queue, connected, unless an
\* end_session has since terminated or cancelled it.
C21_TtsFailureKeepsTurnAndTask ==
    \A s \in SessionIds :
        tts[s].did = "failed" =>
            /\ \E i \in DOMAIN out[s] :
                   /\ out[s][i].type = "Complete"
                   /\ out[s][i].of = cur[s].id
                   /\ out[s][i].frags # <<>>
            /\ cur[s].id \in completed[s]
            /\ ~rc_sent[s]
            /\ tpc[s] \in {"get", "closing", "ended", "cancelled"}
            /\ tpc[s] = "get" => connected[s] /\ taskField[s] = "task"

\* the synthesis failed at the end of the first turn and the second message
\* waits in the queue of the task, which is ready to take it
C21_Witness ==
    \E s \in SessionIds :
        /\ tts[s].did = "failed"
        /\ tpc[s] = "get" /\ connected[s]
        /\ deqLog[s] = <<1>>
        /\ message_queue[s] # <<>> /\ Head(message_queue[s]).id = 2

\* the events that follow the last response_complete of a log
AfterLastComplete(log) ==
    LET cs == {i \in DOMAIN log : log[i].type = "Complete"}
        k == IF cs = {} THEN 0 ELSE CHOOSE i \in cs : \A j \in cs : j <= i
    IN SubSeq(log, k + 1, Len(log))

\* C22: when the synthesis of a turn returned n bytes, the audio events of
\* the turn are ceil(n / 4096) AudioChunks followed by one AudioStreamEnd;
\* the chunks are consecutive slices of the bytes from offset 0 (so their
\* concatenation is the n bytes), each of 4096 bytes except a shorter last.
C22_AudioChunking ==
    \A s \in SessionIds :
        tts[s].did = "ok" =>
            LET n == tts[s].bytes
                a == AfterLastComplete(out[s])
                k == (n + ChunkSize - 1) \div ChunkSize
            IN
            /\ Len(a) = k + 1
            /\ a[k + 1].type = "AudioStreamEnd"
            /\ Count(out[s], "AudioStreamEnd") = 1
            /\ Count(out[s], "AudioChunk") = k
            /\ \A i \in 1..k :
                   /\ a[i].type = "AudioChunk"
                   /\ a[i].items = <<(i - 1) * ChunkSize>>
                   /\ a[i].n = IF i < k THEN ChunkSize ELSE n - (k - 1) * ChunkSize
                   /\ a[i].n \in 1..ChunkSize

\* audio of two whole chunks and one byte: three chunks, the last of one byte
C22_Witness ==
    \E s \in SessionIds :
        /\ tts[s].did = "ok"
        /\ tts[s].bytes = MaxAudio * ChunkSize + 1
        /\ Count(out[s], "AudioChunk") = MaxAudio + 1
        /\ out[s][Len(out[s]) - 1].n = 1

IsAudio(e) == e.type \in {"AudioChunk", "AudioStreamEnd"}

\* C23: every AudioChunk and AudioStreamEnd in the log of a turn comes after
\* a response_complete of that turn sent to the same client, nothing but
\* audio follows it in that log, and by the time it is there the turn is
\* over: the events of the next turn start a new log at the next dequeue.
C23_AudioAfterComplete ==
    \A s \in SessionIds :
        \A i \in DOMAIN out[s] :
            IsAudio(out[s][i]) =>
                /\ \E j \in 1..(i - 1) :
                       /\ out[s][j].type = "Complete"
                       /\ out[s][j].of = cur[s].id
                       /\ out[s][j].to = out[s][i].to
                /\ \A j \in (i + 1)..Len(out[s]) : IsAudio(out[s][j])
                /\ ~TurnInFlight(s)
                /\ cur[s].id = deqLog[s][Len(deqLog[s])]

\* the second turn of a session ended with audio of more than one chunk
C23_Witness ==
    \E s \in SessionIds :
        /\ deqLog[s] = <<1, 2>>
        /\ tts[s].did = "ok"
        /\ Count(out[s], "AudioChunk") > 1
        /\ out[s][Len(out[s])].type = "AudioStreamEnd"

\* C24: while the task of one session is inside the speech synthesis, the
\* task of every other session can take the step it is ready for: start,
\* take the message that waits in its queue, or go on after its send.
C24_SynthesisLeavesLoopFree ==
    \A s, r \in SessionIds :
        tpc[s] = "synth" /\ r # s =>
            /\ tpc[r] = "start" => ENABLED TaskStart(r)
            /\ tpc[r] = "get" /\ message_queue[r] # <<>> => ENABLED Dequeue(r)
            /\ tpc[r] = "send" => ENABLED SendOk(r)

\* C25: once the tool response of a turn has been sent (the send neither
\* failed nor was cancelled), the task goes on reading the frames of that
\* turn, and whenever the task takes the next
\* message from its queue the remote has no answer left unfinished: every
\* turn sent so far was read up to its end.
C25_TurnReadToItsEndBeforeNextDequeue ==
    [][\A s \in SessionIds :
          /\ tpc[s] = "sendtool" /\ tpc'[s] \notin {"sendtool", "crashed", "cancelled"}
             => tpc'[s] = "recv"
          /\ Len(deqLog'[s]) > Len(deqLog[s]) => backlog[s] = <<>>]_vars

\* C26: in both services every tool-call frame is answered on the session's
\* connection before another frame is processed. Live2 handles a frame in one
\* step, after which it has sent as many tool responses as it has received
\* tool-call frames; in Live the step that takes a tool-call frame starts the
\* call, and the call ends with a response about to be sent.
C26_ToolCallFrameAnswered ==
    [][/\ \A a \in Live2Names : l2tool'[a].answers = l2tool'[a].frames
       /\ \A s \in SessionIds :
             /\ \A fr \in Frames, client \in BOOLEAN :
                   Recv(s, fr, client) /\ fr.tool # "none" => tpc'[s] = "exec"
             /\ tpc[s] = "exec" /\ tpc'[s] \notin {"exec", "cancelled"}
                => /\ tpc'[s] = "sendtool"
                   /\ toolres'[s] # NoResponse]_vars

\* C27: a tool-call frame with one or more calls has its first call, and no
\* other, executed and answered, and leaves the session running. In Live the
\* step that takes the frame starts the call named first, whatever follows
\* it, and the task stays connected; in Live2 the frame is handled in one
\* step, after which one tool response per frame has been sent.
C27_FirstCallOnly ==
    [][/\ \A s \in SessionIds, fr \in Frames \cup MultiCallFrames, client \in BOOLEAN :
             Recv(s, fr, client) /\ fr.tool # "none"
             => /\ tpc'[s] = "exec" /\ connected'[s]
                /\ toolcur'[s] = fr.tool
       /\ \A s \in SessionIds :
             tpc[s] = "sendtool" /\ tpc'[s] = "get"
             => toolres[s] # NoResponse /\ toolres'[s] = NoResponse
       /\ \A a \in Live2Names :
             /\ l2tool'[a].answers = l2tool'[a].frames
             /\ l2tool'[a].frames > l2tool[a].frames => active'[a] = active[a]]_vars

IsTextDelta(e) == e.type = "TextDelta"
\* the texts of the TextDeltas of a log, in the order of the log
DeltaTexts(log) ==
    LET d == SelectSeq(log, IsTextDelta) IN [j \in 1..Len(d) |-> d[j].frags[1]]

\* C28: in a turn whose message came from a client and was sent to the
\* remote, the TextDeltas emitted so far carry the fragments received so far,
\* one each and in order, and every Complete of the turn carries the texts of
\* the TextDeltas that precede it, in order ("Here you go!" being allowed when
\* none precedes it).
C28_TextDeltasThenTheirConcatenation ==
    \A s \in SessionIds :
        /\ cur[s].by \in Clients
        /\ tpc[s] \in {"recv", "exec", "sendtool", "synth", "get"}
        /\ sendLog[s] # <<>> /\ sendLog[s][Len(sendLog[s])] = cur[s].id
        => /\ DeltaTexts(out[s]) = acc[s]
           /\ \A i \in DOMAIN out[s] :
                 out[s][i].type = "Complete" =>
                     LET before == DeltaTexts(SubSeq(out[s], 1, i - 1)) IN
                     IF out[s][i].kind = "fallback" THEN before = <<>>
                     ELSE out[s][i].frags = before

\* C29: in a turn whose message came from a client, a Complete with the text
\* "Here you go!" is preceded in that turn by a ToolResult and by no
\* TextDelta: a tool result was produced in this very turn and no text was
\* accumulated.
C29_FallbackOnlyForToolTurnWithoutText ==
    \A s \in SessionIds :
        cur[s].by \in Clients =>
            \A i \in DOMAIN out[s] :
                out[s][i].type = "Complete" /\ out[s][i].kind = "fallback" =>
                    /\ \E j \in 1..(i - 1) : out[s][j].type = "ToolResult"
                    /\ DeltaTexts(SubSeq(out[s], 1, i - 1)) = <<>>

\* C30: once the task has taken a message whose frame cannot be decoded,
\* nothing has been sent to the remote for it, the client has been sent one
\* Complete (the frame error) and nothing else for it, and the task has not
\* failed: it is at its queue, connected, ready for the next message, unless
\* an end_session has since terminated or cancelled it.
C30_UndecodableFrameKeepsSession ==
    \A s \in SessionIds :
        cur[s].frame = "bad" =>
            /\ \A i \in DOMAIN sendLog[s] : sendLog[s][i] # cur[s].id
            /\ Len(out[s]) = 1
            /\ out[s][1].type = "Complete" /\ out[s][1].kind = "frame_error"
            /\ out[s][1].of = cur[s].id /\ out[s][1].to \in Clients
            /\ cur[s].id \in completed[s]
            /\ tpc[s] \in {"get", "closing", "ended", "cancelled"}
            /\ tpc[s] = "get" => connected[s] /\ taskField[s] = "task"

\* the first message had a frame that cannot be decoded and has been
\* answered with the frame error; the second waits in the queue of the task,
\* which is connected and ready to take it
C30_Witness ==
    \E s \in SessionIds :
        /\ cur[s].frame = "bad" /\ cur[s].id = 1
        /\ sendLog[s] = <<>> /\ Len(out[s]) = 1
        /\ tpc[s] = "get" /\ connected[s]
        /\ message_queue[s] # <<>> /\ Head(message_queue[s]).id = 2

\* C31: once end_session(id) of the Live2 service has returned true for a
\* session whose process_streaming task is running, the task eventually
\* leaves its receive loop, cancels its sender and closes the connection,
\* by its own steps alone: no further frame of the remote is needed
C31_EndedStreamEventuallyExits ==
    \A a \in Live2Ids :
        (a \in sessions /\ a \in ended /\ ~active[a]
            /\ stream_task[a] \in {"start", "streaming"})
        ~> (stream_task[a] \in {"exited", "failed"})

\* C32: the items a Live2 session hands to the remote connection are in the
\* order in which the transport submitted them (audio chunks in the order of
\* their handle_audio_chunk calls, also when more chunks are outstanding than
\* out_queue holds, and no video frame before an audio chunk submitted
\* earlier)
C32_MediaSentInSubmissionOrder ==
    \A a \in Live2Ids :
        \A i, j \in DOMAIN l2sent[a] : i < j => l2sent[a][i] < l2sent[a][j]

\* C33: every write to the session registry of the Live2 service or to the
\* state of one of its sessions is made on the event loop, in a coroutine
\* handed to the scheduler's submit primitive, and none on the thread of a
\* transport handler; create_session, end_session and handle_audio_chunk are
\* among the writers
C33_WritesOnlyOnTheLoop ==
    \A w \in l2writes : w.on = "loop"

\* C34: every TextDelta and ToolResult emitted in a turn comes from a frame
\* of the remote's answer to the message of that turn: no frame of the answer
\* to an earlier message is delivered after that message's Complete, while a
\* later message is being processed
C34_EventsStemFromOwnTurn ==
    \A s \in LiveIds : \A i \in DOMAIN out[s] :
        out[s][i].type \in {"TextDelta", "ToolResult"} => out[s][i].of = cur[s].id

\* C35: the events of a turn all go to the client that submitted the message
\* of the turn, also when another client submits a message to the session
\* while the turn is queued or in flight
C35_TurnEventsGoToSubmitter ==
    \A s \in LiveIds :
        cur[s].by \in Clients =>
            \A i \in DOMAIN out[s] : out[s][i].to = cur[s].by

\* C36: in a session with no sink bound, no frame the remote sends in a turn
\* and no result of the tool executor ends the background task: the emits
\* are skipped and the task goes on (a tool call whose arguments are absent
\* is left aside: it ends the task with or without a sink)
C36_NoSinkTurnKeepsTask ==
    [][\A s \in LiveIds :
         ~SinkBound(s) =>
            /\ tpc[s] = "exec" => tpc'[s] # "crashed"
            /\ \A fr \in Frames, client \in BOOLEAN :
                  fr.args # "missing" /\ Recv(s, fr, client) => tpc'[s] # "crashed"]_vars

\* C37: of two end_session calls for the same registered id, the second
\* begun while the first awaits the task, neither is left by an exception,
\* and once they have returned the id is in neither active_sessions nor
\* session_responses
C37_OverlappingEndSessionsBothComplete ==
    \A c, d \in Callers :
        c # d /\ efound[c] /\ efound[d] /\ esid[c] = esid[d] =>
            /\ epc[c] # "raised"
            /\ epc[c] = "returned" /\ epc[d] = "returned" =>
                  esid[c] \notin active_sessions \cup session_responses

\* what C38 names of a session: its registry entry, the contents of its
\* queue, its connected flag, its sink binding and its per-turn flags
SessionFrame(s) ==
    <<s \in active_sessions, message_queue[s], connected[s], client_sid[s],
      rc_sent[s], fr_sent[s]>>

\* everything the service and the task keep for a session id
SessionAll(s) ==
    <<SessionFrame(s), s \in session_responses, taskField[s], tpc[s], tts[s],
      cur[s], acc[s], toolcur[s], toolres[s], backlog[s], out[s], nextMsg[s],
      deqLog[s], sendLog[s], completed[s], handshake[s], created[s], submitRes[s]>>

\* C38: a step of one session (create_session, a message submission, a step
\* of its task in a turn or in a failure, a step of an end_session call for
\* it) leaves unchanged the registry entry, the queue contents, the connected
\* flag, the sink binding and the per-turn flags of every other session
C38_OtherSessionsUntouched ==
    [][\A s, t \in SessionIds :
         /\ s # t
         /\ \/ SessionAll(s)' # SessionAll(s)
            \/ \E c \in Callers : epc'[c] # epc[c] /\ esid'[c] = s
         => SessionFrame(t)' = SessionFrame(t)]_vars

\* an end_session of one session has returned, and so has its task, while
\* another session is registered and connected with a message on its queue
C38_Witness ==
    \E s, t \in SessionIds, c \in Callers :
        /\ s # t
        /\ epc[c] = "returned" /\ efound[c] /\ esid[c] = s
        /\ s \notin active_sessions /\ completed[s] # {}
        /\ t \in active_sessions /\ connected[t] /\ message_queue[t] # <<>>

\* C39: in a session with a client bound, on which end_session is never
\* called and whose remote answers every message up to the end of the turn,
\* every message process_user_message_socketio has accepted eventually has
\* its Complete event emitted to the client
C39_AcceptedMessageEventuallyComplete ==
    \A s \in LiveIds : \A i \in 1..MaxMsgs :
        (nextMsg[s] >= i) ~> (i \in completed[s])

====
